---- MODULE Spec2Model ----
(***************************************************************************)
(* cronoisseur: the expression-parsing engine of src/src/main.rs.          *)
(*                                                                         *)
(* A Rust string is modelled as a sequence of characters, a character as a *)
(* one-character TLA+ string.  Option<T> is [some |-> FALSE] (None) or     *)
(* [some |-> TRUE, val |-> v] (Some(v)).  A u32 is modelled by its decimal *)
(* digits (what to_string prints) so that values up to u32::MAX keep their *)
(* width; a u32 known to be small is an integer.                           *)
(***************************************************************************)
EXTENDS Integers, Sequences, FiniteSets, TLC

VARIABLES expression, pc, normalized, consulted, result

vars == <<expression, pc, normalized, consulted, result>>

(***************************************************************************)
(* Characters and the std string functions the parser uses.  A value the   *)
(* code binds with `let` is the parameter of a local operator here.        *)
(***************************************************************************)
DigitChars == <<"0","1","2","3","4","5","6","7","8","9">>

UpperChars == <<"A","B","C","D","E","F","G","H","I","J","K","L","M","N","O","P","Q","R","S","T","U","V","W","X","Y","Z">>

LowerChars == <<"a","b","c","d","e","f","g","h","i","j","k","l","m","n","o","p","q","r","s","t","u","v","w","x","y","z">>

Range(s) == {s[i] : i \in 1..Len(s)}

\* char::is_whitespace, on the characters of the model: space and tab
is_whitespace(c) == c \in {" ", "\t"}

is_ascii_digit(c) == c \in Range(DigitChars)

is_ascii_alphanumeric(c) ==
    c \in Range(DigitChars) \cup Range(UpperChars) \cup Range(LowerChars)

DigitValue(c) == (CHOOSE i \in 1..10 : DigitChars[i] = c) - 1

char_to_lowercase(c) ==
    IF c \in Range(UpperChars)
    THEN LowerChars[CHOOSE i \in 1..26 : UpperChars[i] = c]
    ELSE c

to_lowercase(s) == [i \in 1..Len(s) |-> char_to_lowercase(s[i])]

None == [some |-> FALSE]

Some(v) == [some |-> TRUE, val |-> v]

SetMin(S) == CHOOSE x \in S : \A y \in S : x <= y

SetMax(S) == CHOOSE x \in S : \A y \in S : y <= x

\* str::trim
trim(s) ==
    LET Keep(keep) == IF keep = {} THEN <<>> ELSE SubSeq(s, SetMin(keep), SetMax(keep))
    IN  Keep({i \in 1..Len(s) : ~is_whitespace(s[i])})

\* str::starts_with
starts_with(s, p) == Len(p) <= Len(s) /\ SubSeq(s, 1, Len(p)) = p

\* str::ends_with
ends_with(s, p) == Len(p) <= Len(s) /\ SubSeq(s, Len(s) - Len(p) + 1, Len(s)) = p

\* the part of s from position i on (s[i..] of a 1-based sequence)
From(s, i) == SubSeq(s, i, Len(s))

\* str::find: the position of the first occurrence of p in s, 0 when there is none
find(s, p) ==
    LET First(at) == IF at = {} THEN 0 ELSE SetMin(at)
    IN  First({i \in 1..(Len(s) - Len(p) + 1) : SubSeq(s, i, i + Len(p) - 1) = p})

\* str::replace: every non-overlapping occurrence, left to right
RECURSIVE replace(_, _, _)
replace(s, from, to) ==
    LET At(i) == IF i = 0 THEN s
                 ELSE SubSeq(s, 1, i - 1) \o to \o replace(From(s, i + Len(from)), from, to)
    IN  At(find(s, from))

\* str::split_once
split_once(s, p) ==
    LET At(i) == IF i = 0 THEN None
                 ELSE Some(<<SubSeq(s, 1, i - 1), From(s, i + Len(p))>>)
    IN  At(find(s, p))

\* str::split on one character: the parts between its occurrences
RECURSIVE split(_, _)
split(s, c) ==
    LET At(i) == IF i = 0 THEN <<s>>
                 ELSE <<SubSeq(s, 1, i - 1)>> \o split(From(s, i + 1), c)
    IN  At(find(s, <<c>>))

\* the length of the whitespace run s starts with
RECURSIVE WsLen(_)
WsLen(s) == IF s # <<>> /\ is_whitespace(Head(s)) THEN 1 + WsLen(Tail(s)) ELSE 0

\* the length of the run of other characters s starts with
RECURSIVE NonWsLen(_)
NonWsLen(s) == IF s # <<>> /\ ~is_whitespace(Head(s)) THEN 1 + NonWsLen(Tail(s)) ELSE 0

\* the length of the run of ASCII digits s starts with
RECURSIVE DigitLen(_)
DigitLen(s) == IF s # <<>> /\ is_ascii_digit(Head(s)) THEN 1 + DigitLen(Tail(s)) ELSE 0

\* str::split_whitespace
RECURSIVE split_whitespace(_)
split_whitespace(s) ==
    LET Token(t, n) == <<SubSeq(t, 1, n)>> \o split_whitespace(From(t, n + 1))
        Rest(t) == IF t = <<>> THEN <<>> ELSE Token(t, NonWsLen(t))
    IN  Rest(From(s, WsLen(s) + 1))

\* [String]::join
RECURSIVE join(_, _)
join(parts, sep) ==
    IF parts = <<>> THEN <<>>
    ELSE IF Len(parts) = 1 THEN parts[1]
    ELSE parts[1] \o sep \o join(Tail(parts), sep)

(***************************************************************************)
(* u32: str::parse::<u32> and to_string.                                   *)
(***************************************************************************)
\* u32::MAX = 4294967295, as its digits
U32MaxDigits == <<"4","2","9","4","9","6","7","2","9","5">>

\* the length of the run of zeros s starts with
RECURSIVE ZeroLen(_)
ZeroLen(s) == IF s # <<>> /\ Head(s) = "0" THEN 1 + ZeroLen(Tail(s)) ELSE 0

\* a digit string without its leading zeros ("0" for zero)
StripZeros(d) ==
    LET Strip(n) == IF n = Len(d) THEN <<"0">> ELSE From(d, n + 1)
    IN  Strip(ZeroLen(d))

\* the value of a digit string of at most nine digits
RECURSIVE SmallValue(_)
SmallValue(d) ==
    IF d = <<>> THEN 0
    ELSE 10 * SmallValue(SubSeq(d, 1, Len(d) - 1)) + DigitValue(d[Len(d)])

\* d > e for two digit strings without leading zeros and of the same length
RECURSIVE DigitsGreater(_, _)
DigitsGreater(d, e) ==
    IF d = <<>> THEN FALSE
    ELSE IF Head(d) # Head(e) THEN DigitValue(Head(d)) > DigitValue(Head(e))
    ELSE DigitsGreater(Tail(d), Tail(e))

\* whether the number written by the digit string (no leading zeros) exceeds u32::MAX
ExceedsU32(d) ==
    \/ Len(d) > Len(U32MaxDigits)
    \/ Len(d) = Len(U32MaxDigits) /\ DigitsGreater(d, U32MaxDigits)

\* str::parse::<u32>: an optional `+`, then one or more ASCII digits, the value
\* at most u32::MAX; the result is the value's digits
parse_u32(s) ==
    LET Fits(d) == IF ExceedsU32(d) THEN None ELSE Some(d)
        Digits(body) ==
            IF body = <<>> \/ \E i \in 1..Len(body) : ~is_ascii_digit(body[i]) THEN None
            ELSE Fits(StripZeros(body))
    IN  Digits(IF s # <<>> /\ Head(s) = "+" THEN Tail(s) ELSE s)

\* v > n for a u32 v given by its digits and a small integer n
U32Greater(v, n) == Len(v) > 9 \/ SmallValue(v) > n

\* u32::to_string of a small value
RECURSIVE to_string(_)
to_string(n) ==
    IF n < 10 THEN <<DigitChars[n + 1]>>
    ELSE to_string(n \div 10) \o <<DigitChars[(n % 10) + 1]>>

\* format!("{:02}", n)
Pad2(n) == (IF n < 10 THEN <<"0">> ELSE <<>>) \o to_string(n)

format_clock(hour, minute) == Pad2(hour) \o <<":">> \o Pad2(minute)

(***************************************************************************)
(* Clock-Time Parser.                                                      *)
(***************************************************************************)
\* TimeOfParts without the special case of 12 under a meridian
TimeOfPartsTwelve(hour_part, minute_part, meridian) ==
    LET Adjust(h, m) ==
            IF meridian = "none" THEN Some(<<h, m>>)
            ELSE IF h > 12 THEN None
            ELSE IF meridian = "am" THEN Some(<<h, m>>)
            ELSE Some(<<h + 12, m>>)
        WithMinute(hour, minute) ==
            IF ~minute.some THEN None
            ELSE IF U32Greater(minute.val, 59) THEN None
            ELSE Adjust(SmallValue(hour.val), SmallValue(minute.val))
        WithHour(hour) ==
            IF ~hour.some THEN None
            ELSE IF U32Greater(hour.val, 23) THEN None
            ELSE WithMinute(hour, IF minute_part.some THEN parse_u32(minute_part.val)
                                  ELSE Some(<<"0">>))
    IN  WithHour(parse_u32(hour_part))

\* lines 823-849: the hour and minute of the two parts, under the meridian
TimeOfParts(hour_part, minute_part, meridian) ==
    LET Adjust(h, m) ==
            IF meridian = "none" THEN Some(<<h, m>>)
            ELSE IF h > 12 THEN None
            ELSE IF meridian = "am" THEN Some(<<IF h = 12 THEN 0 ELSE h, m>>)
            ELSE Some(<<IF h # 12 THEN h + 12 ELSE h, m>>)
        WithMinute(hour, minute) ==
            IF ~minute.some THEN None
            ELSE IF U32Greater(minute.val, 59) THEN None
            ELSE Adjust(SmallValue(hour.val), SmallValue(minute.val))
        WithHour(hour) ==
            IF ~hour.some THEN None
            ELSE IF U32Greater(hour.val, 23) THEN None
            ELSE WithMinute(hour, IF minute_part.some THEN parse_u32(minute_part.val)
                                  ELSE Some(<<"0">>))
    IN  WithHour(parse_u32(hour_part))

parse_time_fragment(raw) ==
    LET Parts(parts, meridian) ==
            IF Len(parts) > 2 THEN None
            ELSE TimeOfParts(parts[1],
                             IF Len(parts) = 2 THEN Some(parts[2]) ELSE None,
                             meridian)
        Fragment(spaceless, meridian) ==
            Parts(split(IF meridian = "none" THEN spaceless
                        ELSE SubSeq(spaceless, 1, Len(spaceless) - 2), ":"),
                  meridian)
        Spaceless(spaceless) ==
            Fragment(spaceless,
                     IF ends_with(spaceless, <<"a","m">>) THEN "am"
                     ELSE IF ends_with(spaceless, <<"p","m">>) THEN "pm"
                     ELSE "none")
        Trimmed(trimmed) ==
            IF trimmed = <<"m","i","d","n","i","g","h","t">> THEN Some(<<0, 0>>)
            ELSE IF trimmed = <<"n","o","o","n">> THEN Some(<<12, 0>>)
            ELSE Spaceless(replace(trimmed, <<" ">>, <<>>))
    IN  Trimmed(to_lowercase(trim(raw)))

(***************************************************************************)
(* Weekday-List Parser.                                                    *)
(***************************************************************************)
day_number(token) ==
    IF token \in {<<"s","u","n">>, <<"s","u","n","d","a","y">>} THEN Some(0)
    ELSE IF token \in {<<"m","o","n">>, <<"m","o","n","d","a","y">>} THEN Some(1)
    ELSE IF token \in {<<"t","u","e">>, <<"t","u","e","s">>, <<"t","u","e","s","d","a","y">>} THEN Some(2)
    ELSE IF token \in {<<"w","e","d">>, <<"w","e","d","s">>, <<"w","e","d","n","e","s","d","a","y">>} THEN Some(3)
    ELSE IF token \in {<<"t","h","u">>, <<"t","h","u","r">>, <<"t","h","u","r","s">>, <<"t","h","u","r","s","d","a","y">>} THEN Some(4)
    ELSE IF token \in {<<"f","r","i">>, <<"f","r","i","d","a","y">>} THEN Some(5)
    ELSE IF token \in {<<"s","a","t">>, <<"s","a","t","u","r","d","a","y">>} THEN Some(6)
    ELSE None

stop_words == {<<"e","v","e","r","y">>, <<"e","a","c","h">>, <<"o","n">>, <<"w","e","e","k">>, <<"w","e","e","k","s">>, <<"w","e","e","k","l","y">>, <<"t","h","e">>}

Contains(seq, v) == \E i \in 1..Len(seq) : seq[i] = v

\* the loop of parse_day_list over the tokens, days being the list so far
RECURSIVE DayListLoop(_, _)
DayListLoop(tokens, days) ==
    LET Push(value) ==
            IF value.some
            THEN DayListLoop(Tail(tokens),
                             IF Contains(days, value.val) THEN days
                             ELSE Append(days, value.val))
            ELSE None
        Token(lower) ==
            IF lower \in stop_words THEN DayListLoop(Tail(tokens), days)
            ELSE Push(day_number(IF ends_with(lower, <<"s">>)
                                 THEN SubSeq(lower, 1, Len(lower) - 1)
                                 ELSE lower))
    IN  IF tokens = <<>> THEN Some(days)
        ELSE Token(to_lowercase(trim(Head(tokens))))

\* sort left out: the values in the order they were found
unsorted(values) == values

\* Vec::sort of numbers
sort(values) == SortSeq(values, LAMBDA a, b : a < b)

\* iter().map(to_string).collect().join(sep)
JoinNumbers(values, sep) == join([i \in 1..Len(values) |-> to_string(values[i])], sep)

parse_day_list(prefix) ==
    LET Sorted(days) == Some([cron_value |-> JoinNumbers(days, <<",">>), days |-> days])
        Days(days) ==
            IF ~days.some THEN None
            ELSE IF days.val = <<>> THEN None
            ELSE Sorted(sort(days.val))
    IN  Days(DayListLoop(
            split_whitespace(
                replace(replace(replace(prefix, <<",">>, <<" ">>), <<"&">>, <<" ">>), <<" ","a","n","d"," ">>, <<" ">>)),
            <<>>))

(***************************************************************************)
(* Day-of-Month-List Parser.                                               *)
(***************************************************************************)
\* token.chars().filter(is_ascii_digit).collect()
RECURSIVE DigitsOf(_)
DigitsOf(token) ==
    IF token = <<>> THEN <<>>
    ELSE (IF is_ascii_digit(Head(token)) THEN <<Head(token)>> ELSE <<>>)
             \o DigitsOf(Tail(token))

\* the loop of parse_dom_list over the tokens, values being the list so far
RECURSIVE DomListLoop(_, _)
DomListLoop(tokens, values) ==
    LET Push(value) ==
            IF /\ value.some
               /\ ~U32Greater(value.val, 31)
               /\ SmallValue(value.val) >= 1
               /\ ~Contains(values, SmallValue(value.val))
            THEN Append(values, SmallValue(value.val))
            ELSE values
        Token(digits) ==
            DomListLoop(Tail(tokens),
                        IF digits = <<>> THEN values ELSE Push(parse_u32(digits)))
    IN  IF tokens = <<>> THEN values
        ELSE Token(DigitsOf(Head(tokens)))

\* DomNormalize without the replacement of `,` by a space
DomNormalizeKeepingCommas(raw) ==
    replace(replace(replace(replace(replace(raw,
        <<" ","a","n","d"," ">>, <<" ">>), <<"t","h">>, <<>>), <<"r","d">>, <<>>), <<"n","d">>, <<>>), <<"s","t">>, <<>>)

\* DomNormalize with ` and ` removed instead of replaced by a space
DomNormalizeJoiningAnd(raw) ==
    replace(replace(replace(replace(replace(replace(raw,
        <<",">>, <<" ">>), <<" ","a","n","d"," ">>, <<>>), <<"t","h">>, <<>>), <<"r","d">>, <<>>), <<"n","d">>, <<>>), <<"s","t">>, <<>>)

\* lines 753-759
DomNormalize(raw) ==
    replace(replace(replace(replace(replace(replace(raw,
        <<",">>, <<" ">>), <<" ","a","n","d"," ">>, <<" ">>), <<"t","h">>, <<>>), <<"r","d">>, <<>>), <<"n","d">>, <<>>), <<"s","t">>, <<>>)

parse_dom_list(raw) ==
    LET Sorted(values) ==
            Some([cron_value |-> JoinNumbers(values, <<",">>),
                  human_value |-> JoinNumbers(values, <<","," ">>)])
        Values(values) == IF values = <<>> THEN None ELSE Sorted(sort(values))
    IN  Values(DomListLoop(split_whitespace(DomNormalize(raw)), <<>>))

(***************************************************************************)
(* Schedule Record and the explanation helpers.                            *)
(***************************************************************************)
\* CronSpec_new with the month and the day of week taken in the other order
CronSpec_new_swapped(minute, hour, day_of_month, month, day_of_week, explanation) ==
    [minute |-> minute, hour |-> hour, day_of_month |-> day_of_month,
     month |-> day_of_week, day_of_week |-> month, explanation |-> explanation]

CronSpec_new(minute, hour, day_of_month, month, day_of_week, explanation) ==
    [minute |-> minute, hour |-> hour, day_of_month |-> day_of_month,
     month |-> month, day_of_week |-> day_of_week, explanation |-> explanation]

as_string(spec) ==
    join(<<spec.minute, spec.hour, spec.day_of_month, spec.month, spec.day_of_week>>, <<" ">>)

DayLabel(d) ==
    CASE d = 0 -> <<"S","u","n","d","a","y","s">>
      [] d = 1 -> <<"M","o","n","d","a","y","s">>
      [] d = 2 -> <<"T","u","e","s","d","a","y","s">>
      [] d = 3 -> <<"W","e","d","n","e","s","d","a","y","s">>
      [] d = 4 -> <<"T","h","u","r","s","d","a","y","s">>
      [] d = 5 -> <<"F","r","i","d","a","y","s">>
      [] OTHER -> <<"S","a","t","u","r","d","a","y","s">>

describe_days(days) == join([i \in 1..Len(days) |-> DayLabel(days[i])], <<","," ">>)

\* the record of a recognizer whose minute and hour come from the Clock-Time Parser
TimedSpec(time, day_of_month, day_of_week, before, after) ==
    IF ~time.some THEN None
    ELSE Some(CronSpec_new(to_string(time.val[2]), to_string(time.val[1]),
                           day_of_month, <<"*">>, day_of_week,
                           before \o format_clock(time.val[1], time.val[2]) \o after))

(***************************************************************************)
(* The pieces of the recognizers' regular expressions.  Every regex is     *)
(* anchored (^...$); \s is a whitespace character, \d a digit.  A piece    *)
(* takes the Option of what is left to match and gives the Option of what  *)
(* is left after it.                                                       *)
(***************************************************************************)
\* \s+ : what follows the whole run, None without a run
AfterWs(r) ==
    IF r.some /\ WsLen(r.val) >= 1 THEN Some(From(r.val, WsLen(r.val) + 1)) ELSE None

\* a literal: what follows it
AfterLit(r, lit) ==
    IF r.some /\ starts_with(r.val, lit) THEN Some(From(r.val, Len(lit) + 1)) ELSE None

\* (?:every\s+)? : what follows it (all of s when it is absent)
AfterOptEvery(s) ==
    LET Every(e) == IF e.some THEN e ELSE Some(s)
    IN  Every(AfterWs(AfterLit(Some(s), <<"e","v","e","r","y">>)))

\* (?:\s+at\s+:(?P<m>\d{1,2}))?$ : None when it does not match, Some(None) when
\* nothing is left, Some(Some(m)) with the digits captured
AtMinuteSuffix(r) ==
    LET Digits(m) ==
            IF /\ m.some
               /\ Len(m.val) \in {1, 2}
               /\ \A i \in 1..Len(m.val) : is_ascii_digit(m.val[i])
            THEN Some(m)
            ELSE None
    IN  IF ~r.some THEN None
        ELSE IF r.val = <<>> THEN Some(None)
        ELSE Digits(AfterLit(AfterWs(AfterLit(AfterWs(r), <<"a","t">>)), <<":">>))

\* \s+(?P<time>.+)$ after an `at`: the time captured.  \s+ takes the whole run
\* and gives its last character back when nothing else is left for .+
AtTime(r) ==
    LET Run(s, w) ==
            IF w >= 1 /\ w < Len(s) THEN Some(From(s, w + 1))
            ELSE IF w >= 2 THEN Some(<<s[w]>>)
            ELSE None
    IN  IF r.some THEN Run(r.val, WsLen(r.val)) ELSE None

\* ClampMinute without the .min(59)
ClampMinuteUnclamped(m) ==
    LET Value(v) == IF v.some THEN SmallValue(v.val) ELSE 0
    IN  IF m.some THEN Value(parse_u32(m.val)) ELSE 0

\* m.as_str().parse::<u32>().unwrap_or(0).min(59) of the capture m, 0 without it
ClampMinute(m) ==
    LET Clamp(v) ==
            IF ~v.some THEN 0
            ELSE IF U32Greater(v.val, 59) THEN 59
            ELSE SmallValue(v.val)
    IN  IF m.some THEN Clamp(parse_u32(m.val)) ELSE 0

\* "*" for an amount of 1, "*/amount" otherwise
StepField(amount) == IF amount = <<"1">> THEN <<"*">> ELSE <<"*","/">> \o amount

(***************************************************************************)
(* The nine recognizers.                                                   *)
(***************************************************************************)
\* try_parse_raw reading the lower-cased input
try_parse_raw_lowercased(input) ==
    LET Parts(parts) ==
            IF Len(parts) # 5 THEN None
            ELSE IF \A i \in 1..5 : \A j \in 1..Len(parts[i]) :
                        \/ is_ascii_alphanumeric(parts[i][j])
                        \/ parts[i][j] \in Range(<<"*","?","/",",","-">>)
                 THEN Some(CronSpec_new(parts[1], parts[2], parts[3], parts[4], parts[5],
                                        <<"R","a","w"," ","c","r","o","n"," ","e","x","p","r","e","s","s","i","o","n">>))
                 ELSE None
    IN  Parts(split_whitespace(to_lowercase(input)))

try_parse_raw(input) ==
    LET Parts(parts) ==
            IF Len(parts) # 5 THEN None
            ELSE IF \A i \in 1..5 : \A j \in 1..Len(parts[i]) :
                        \/ is_ascii_alphanumeric(parts[i][j])
                        \/ parts[i][j] \in Range(<<"*","?","/",",","-">>)
                 THEN Some(CronSpec_new(parts[1], parts[2], parts[3], parts[4], parts[5],
                                        <<"R","a","w"," ","c","r","o","n"," ","e","x","p","r","e","s","s","i","o","n">>))
                 ELSE None
    IN  Parts(split_whitespace(input))

\* ^every\s+(?:(?P<n>\d+)\s+)?min(?:ute)?s?$ : None, or Some of the capture n
EveryMinutesCaptures(input) ==
    LET Unit(u, n) ==
            IF u.some /\ u.val \in {<<"m","i","n">>, <<"m","i","n","s">>, <<"m","i","n","u","t","e">>, <<"m","i","n","u","t","e","s">>}
            THEN Some(n)
            ELSE None
        Count(r, nd) ==
            IF ~r.some THEN None
            ELSE IF nd = 0 THEN Unit(r, None)
            ELSE Unit(AfterWs(Some(From(r.val, nd + 1))), Some(SubSeq(r.val, 1, nd)))
        Every(r) == Count(r, IF r.some THEN DigitLen(r.val) ELSE 0)
    IN  Every(AfterWs(AfterLit(Some(input), <<"e","v","e","r","y">>)))

try_parse_every_minutes(input) ==
    LET Amount(amount) ==
            Some(CronSpec_new(StepField(amount), <<"*">>, <<"*">>, <<"*">>, <<"*">>,
                              <<"E","v","e","r","y"," ">> \o amount \o <<" ","m","i","n","u","t","e","(","s",")">>))
        Parsed(n) == Amount(IF ~n.some \/ n.val = <<"0">> THEN <<"1">> ELSE n.val)
        Captures(caps) ==
            IF ~caps.some THEN None
            ELSE Parsed(IF caps.val.some THEN parse_u32(caps.val.val) ELSE None)
    IN  Captures(EveryMinutesCaptures(input))

\* ^(?:hourly|every\s+hour)(?:\s+at\s+:(?P<m>\d{1,2}))?$ : None, or Some of the capture m
HourlyCaptures(input) ==
    LET Head2(hourly, every_hour) ==
            AtMinuteSuffix(IF hourly.some THEN hourly ELSE every_hour)
    IN  Head2(AfterLit(Some(input), <<"h","o","u","r","l","y">>),
              AfterLit(AfterWs(AfterLit(Some(input), <<"e","v","e","r","y">>)), <<"h","o","u","r">>))

try_parse_hourly(input) ==
    LET Minute(minute) ==
            Some(CronSpec_new(to_string(minute), <<"*">>, <<"*">>, <<"*">>, <<"*">>,
                              IF minute = 0 THEN <<"E","v","e","r","y"," ","h","o","u","r"," ","o","n"," ","t","h","e"," ","h","o","u","r">>
                              ELSE <<"E","v","e","r","y"," ","h","o","u","r"," ","a","t"," ",":">> \o Pad2(minute)))
        Captures(caps) == IF ~caps.some THEN None ELSE Minute(ClampMinute(caps.val))
    IN  Captures(HourlyCaptures(input))

\* ^every\s+(?P<n>\d+)\s+hours?(?:\s+at\s+:(?P<m>\d{1,2}))?$ : None, or Some of
\* the captures n and m
EveryHoursCaptures(input) ==
    LET Suffix(n, m) == IF m.some THEN Some([n |-> n, m |-> m.val]) ELSE None
        Hour(n, h, hs) == Suffix(n, AtMinuteSuffix(IF hs.some THEN hs ELSE h))
        Unit(n, h) == Hour(n, h, AfterLit(h, <<"s">>))
        Count(r, nd) ==
            IF nd = 0 THEN None
            ELSE Unit(SubSeq(r.val, 1, nd),
                      AfterLit(AfterWs(Some(From(r.val, nd + 1))), <<"h","o","u","r">>))
        Every(r) == Count(r, IF r.some THEN DigitLen(r.val) ELSE 0)
    IN  Every(AfterWs(AfterLit(Some(input), <<"e","v","e","r","y">>)))

try_parse_every_hours(input) ==
    LET Build(amount, minute) ==
            Some(CronSpec_new(
                to_string(minute), StepField(amount), <<"*">>, <<"*">>, <<"*">>,
                <<"E","v","e","r","y"," ">> \o amount \o <<" ","h","o","u","r","(","s",")">>
                    \o (IF minute = 0 THEN <<>> ELSE <<" ","a","t"," ",":">> \o Pad2(minute))))
        Parsed(n, m) ==
            Build(IF n.some /\ n.val # <<"0">> THEN n.val ELSE <<"1">>, ClampMinute(m))
        Captures(caps) ==
            IF ~caps.some THEN None ELSE Parsed(parse_u32(caps.val.n), caps.val.m)
    IN  Captures(EveryHoursCaptures(input))

\* ^(?:(?:every\s+)?day|daily)(?:\s+at\s+)?(?P<time>.+)$ : None, or Some of the
\* capture time; the optional group is taken whenever the rest can still match
DailyCaptures(input) ==
    LET Time(h, t) ==
            IF t.some THEN t
            ELSE IF h.val # <<>> THEN h
            ELSE None
        Head3(h) == IF ~h.some THEN None ELSE Time(h, AtTime(AfterLit(AfterWs(h), <<"a","t">>)))
        Heads(every_day, daily) == Head3(IF every_day.some THEN every_day ELSE daily)
    IN  Heads(AfterLit(AfterOptEvery(input), <<"d","a","y">>), AfterLit(Some(input), <<"d","a","i","l","y">>))

try_parse_daily(input) ==
    LET Captures(caps) ==
            IF ~caps.some THEN None
            ELSE TimedSpec(parse_time_fragment(caps.val), <<"*">>, <<"*">>, <<"D","a","i","l","y"," ","a","t"," ">>, <<>>)
    IN  Captures(DailyCaptures(input))

\* ^(?:(?:every\s+)?(?P<kind>weekdays?|weekends?))\s+(?:at\s+)?(?P<time>.+)$ :
\* None, or Some of the captures kind and time
WeekdayishCaptures(input) ==
    LET Time(kind, rest, w, a, t) ==
            IF w = 0 THEN None
            ELSE IF t.some THEN Some([kind |-> kind, time |-> t.val])
            ELSE IF a # <<>> THEN Some([kind |-> kind, time |-> a])
            ELSE IF w >= 2 THEN Some([kind |-> kind, time |-> <<rest[w]>>])
            ELSE None
        At(kind, rest, w, a) == Time(kind, rest, w, a, AtTime(AfterLit(Some(a), <<"a","t">>)))
        Ws(kind, rest, w) == At(kind, rest, w, From(rest, w + 1))
        Plural(kind, r, s) ==
            IF s.some THEN Ws(kind \o <<"s">>, s.val, WsLen(s.val))
            ELSE Ws(kind, r.val, WsLen(r.val))
        Kind(weekday, weekend) ==
            IF weekday.some THEN Plural(<<"w","e","e","k","d","a","y">>, weekday, AfterLit(weekday, <<"s">>))
            ELSE IF weekend.some THEN Plural(<<"w","e","e","k","e","n","d">>, weekend, AfterLit(weekend, <<"s">>))
            ELSE None
        Every(s) == Kind(AfterLit(s, <<"w","e","e","k","d","a","y">>), AfterLit(s, <<"w","e","e","k","e","n","d">>))
    IN  Every(AfterOptEvery(input))

try_parse_weekdayish(input) ==
    LET Kind(time, weekend) ==
            TimedSpec(time, <<"*">>, IF weekend THEN <<"6",",","0">> ELSE <<"1","-","5">>,
                      (IF weekend THEN <<"W","e","e","k","e","n","d","s">> ELSE <<"W","e","e","k","d","a","y","s">>) \o <<" ","a","t"," ">>, <<>>)
        Captures(caps) ==
            IF ~caps.some THEN None
            ELSE Kind(parse_time_fragment(caps.val.time),
                      starts_with(caps.val.kind, <<"w","e","e","k","e","n","d">>))
    IN  Captures(WeekdayishCaptures(input))

try_parse_specific_days(input) ==
    LET Days(dow_set, time_part) ==
            IF ~dow_set.some THEN None
            ELSE TimedSpec(parse_time_fragment(time_part), <<"*">>, dow_set.val.cron_value,
                           describe_days(dow_set.val.days) \o <<" ","a","t"," ">>, <<>>)
        Halves(sp) == IF ~sp.some THEN None ELSE Days(parse_day_list(sp.val[1]), sp.val[2])
    IN  Halves(split_once(input, <<" ","a","t"," ">>))

\* str::trim_start_matches: every repetition of the prefix removed
RECURSIVE trim_start_matches(_, _)
trim_start_matches(s, p) ==
    IF starts_with(s, p) THEN trim_start_matches(From(s, Len(p) + 1), p) ELSE s

\* `<dom-list> at <time>`, as try_parse_monthly (lines 638-653) and
\* try_parse_on_days (lines 679-689) both read it; label starts the explanation
DomAtTime(rest, label) ==
    LET Dom(dom, time_part) ==
            IF ~dom.some THEN None
            ELSE TimedSpec(parse_time_fragment(time_part), dom.val.cron_value, <<"*">>,
                           label \o dom.val.human_value \o <<" ","a","t"," ">>, <<>>)
        Halves(sp) == IF ~sp.some THEN None ELSE Dom(parse_dom_list(sp.val[1]), sp.val[2])
    IN  Halves(split_once(rest, <<" ","a","t"," ">>))

try_parse_monthly(input) ==
    LET Remainder(remainder) ==
            IF remainder = <<>> THEN None
            ELSE IF starts_with(remainder, <<"o","n"," ">>)
                 THEN DomAtTime(From(remainder, 4), <<"M","o","n","t","h","l","y"," ","o","n"," ">>)
            ELSE IF starts_with(remainder, <<"a","t"," ">>)
                 THEN TimedSpec(parse_time_fragment(From(remainder, 4)), <<"1">>, <<"*">>,
                                <<"M","o","n","t","h","l","y"," ","o","n"," ","d","a","y"," ","1"," ","a","t"," ">>, <<" ","(","d","e","f","a","u","l","t"," ","d","a","y",")">>)
            ELSE None
    IN  IF ~starts_with(input, <<"m","o","n","t","h","l","y">>) THEN None
        ELSE Remainder(trim(trim_start_matches(input, <<"m","o","n","t","h","l","y">>)))

\* try_parse_on_days without its starts_with("on ") guard
try_parse_on_days_unguarded(input) ==
    DomAtTime(trim(trim_start_matches(input, <<"o","n"," ">>)), <<"O","n"," ">>)

try_parse_on_days(input) ==
    IF ~starts_with(input, <<"o","n"," ">>) THEN None
    ELSE DomAtTime(trim(trim_start_matches(input, <<"o","n"," ">>)), <<"O","n"," ">>)

(***************************************************************************)
(* The expressions the model feeds to parse_expression.                    *)
(***************************************************************************)
\* the longest run of one digit used as the N of `every N minutes|hours`
MaxDigits == 10

\* how many whitespace characters pad an expression on each side
MaxPad == 1

\* c repeated n times
Repeat(c, n) == [i \in 1..n |-> c]

to_uppercase(s) ==
    [i \in 1..Len(s) |->
        IF s[i] \in Range(LowerChars)
        THEN UpperChars[CHOOSE j \in 1..26 : LowerChars[j] = s[i]]
        ELSE s[i]]

\* the phrases of A followed by those of B
Cat(A, B) == {a \o b : a \in A, b \in B}

Counts ==
    {Repeat(d, k) : d \in {"0", "1", "2", "9"}, k \in 1..MaxDigits}
        \cup {<<"1","5">>, <<"0","5">>, <<"0","0","7">>, <<"4","2","9","4","9","6","7","2","9","5">>, <<"4","2","9","4","9","6","7","2","9","6">>}

Times ==
    {<<"5">>, <<"5","p","m">>, <<"5"," ","p","m">>, <<"0","5",":","3","0">>, <<"1","7",":","4","5">>, <<"5",":","3","0"," ","p","m">>, <<"n","o","o","n">>, <<"m","i","d","n","i","g","h","t">>,
     <<"1","2","a","m">>, <<"1","2","p","m">>, <<"1","3","p","m">>, <<"2","4">>, <<"5",":","6","0">>, <<"+","5">>, <<"1"," ","2"," ","p","m">>, <<":","1","0">>, <<"0">>,
     <<"2","3",":","5","9">>, <<"7",":","1","5",":","0","0">>}

RawExpressions ==
    {join(<<mi, h, dom, mon, dow>>, <<" ">>) :
        mi \in {<<"3","0">>, <<"9","9">>, <<"*","/","1","5">>}, h \in {<<"3">>, <<"2","4">>, <<"*">>},
        dom \in {<<"*">>, <<"1",",","1","5">>, <<"0">>}, mon \in {<<"*">>, <<"1">>, <<"J","A","N">>},
        dow \in {<<"1">>, <<"M","O","N">>, <<"7">>, <<"m",".","n">>}}
        \cup {<<"3","0"," ","3"," ","*"," ","*">>, <<"3","0"," ","3"," ","*"," ","*"," ","1"," ","2">>, <<"?"," ","?"," ","?"," ","?"," ","?">>, <<"a"," ","b"," ","c"," ","d"," ","e">>}

EveryMinutesPhrases ==
    Cat(Cat({<<"e","v","e","r","y"," ">>}, {<<>>} \cup Cat(Counts, {<<" ">>})),
        {<<"m","i","n">>, <<"m","i","n","s">>, <<"m","i","n","u","t","e">>, <<"m","i","n","u","t","e","s">>, <<"m","i","n","u","t","e","s","s">>})

MinuteSuffixes ==
    {<<>>} \cup Cat({<<" ","a","t"," ",":">>}, {<<"0">>, <<"5">>, <<"0","5">>, <<"1","0">>, <<"5","9">>, <<"6","0">>, <<"7","5">>, <<"9","9">>,
                                 <<"1","2","3">>, <<"x">>})

HourlyPhrases == Cat({<<"h","o","u","r","l","y">>, <<"e","v","e","r","y"," ","h","o","u","r">>}, MinuteSuffixes)

EveryHoursPhrases ==
    Cat(Cat(Cat({<<"e","v","e","r","y"," ">>}, Counts), {<<" ","h","o","u","r">>, <<" ","h","o","u","r","s">>}),
        {<<>>, <<" ","a","t"," ",":","1","5">>, <<" ","a","t"," ",":","7","5">>})

DailyPhrases ==
    Cat(Cat({<<"d","a","i","l","y">>, <<"d","a","y">>, <<"e","v","e","r","y"," ","d","a","y">>}, {<<" ","a","t"," ">>, <<" ">>, <<>>}), Times)

WeekdayishPhrases ==
    Cat(Cat({<<"w","e","e","k","d","a","y","s">>, <<"w","e","e","k","d","a","y">>, <<"w","e","e","k","e","n","d","s">>, <<"w","e","e","k","e","n","d">>, <<"e","v","e","r","y"," ","w","e","e","k","d","a","y">>,
             <<"e","v","e","r","y"," ","w","e","e","k","e","n","d","s">>}, {<<" ","a","t"," ">>, <<" ">>}), Times)

DayLists ==
    {<<"m","o","n">>, <<"m","o","n","d","a","y"," ","w","e","d","n","e","s","d","a","y">>, <<"m","o","n","d","a","y","s",","," ","w","e","d","n","e","s","d","a","y","s">>, <<"w","e","e","k","l","y"," ","o","n"," ","f","r","i">>,
     <<"t","u","e"," ","a","n","d"," ","t","h","u">>, <<"f","r","i"," ","&"," ","s","a","t">>, <<"s","a","t"," ","s","u","n"," ","m","o","n">>, <<"o","n"," ","m","o","n","d","a","y">>, <<"f","u","n","d","a","y">>,
     <<"m","o","n"," ","a","n","d">>, <<"e","v","e","r","y"," ","t","h","e">>, <<"t","h","u","r","s",",","t","u","e","s">>}

DomLists ==
    {<<"1","s","t"," ","a","n","d"," ","1","5","t","h">>, <<"1">>, <<"3","2">>, <<"1","5","t","h"," ","a","n","d"," ","1","s","t",","," ","1">>, <<"t","h","e"," ","f","i","r","s","t">>, <<"1","0",",","2","0">>,
     <<"3","r","d">>, <<"0">>, <<"2","2","n","d"," ","3","1","s","t">>}

SpecificDaysPhrases == Cat(Cat(DayLists, {<<" ","a","t"," ">>}), Times)

MonthlyPhrases ==
    Cat({<<"m","o","n","t","h","l","y"," ","a","t"," ">>, <<"m","o","n","t","h","l","y"," ">>, <<"m","o","n","t","h","l","y","m","o","n","t","h","l","y"," ","a","t"," ">>}, Times)
        \cup Cat(Cat(Cat({<<"m","o","n","t","h","l","y"," ","o","n"," ">>}, DomLists), {<<" ","a","t"," ">>}), Times)
        \cup {<<"m","o","n","t","h","l","y">>, <<"m","o","n","t","h","l","y"," ","o","n"," ","1","s","t">>}

OnDaysPhrases ==
    Cat(Cat(Cat({<<"o","n"," ">>}, DomLists), {<<" ","a","t"," ">>}), Times) \cup {<<"o","n"," ","1","s","t">>, <<"o","n"," ","o","n"," ","5"," ","a","t"," ","5">>}

OtherPhrases == {<<>>, <<"s","o","m","e","t","i","m","e"," ","s","o","o","n">>, <<"e","v","e","r","y">>, <<"a","t"," ","5">>, <<"e","v","e","r","y"," ","o","t","h","e","r"," ","d","a","y">>}

Phrases ==
    RawExpressions \cup EveryMinutesPhrases \cup HourlyPhrases \cup EveryHoursPhrases
        \cup DailyPhrases \cup WeekdayishPhrases \cup SpecificDaysPhrases
        \cup MonthlyPhrases \cup OnDaysPhrases \cup OtherPhrases

\* each phrase as written, padded with whitespace, with its spaces doubled,
\* and in capitals
Expressions ==
    Phrases
        \cup {Repeat(" ", k) \o p \o Repeat("\t", k) : p \in Phrases, k \in 1..MaxPad}
        \cup {replace(p, <<" ">>, <<" "," ">>) : p \in Phrases}
        \cup {to_uppercase(p) : p \in Phrases}

(***************************************************************************)
(* parse_expression, one step per recognizer consulted.                    *)
(***************************************************************************)
Ok(spec) == [kind |-> "Ok", spec |-> spec]

Err(message) == [kind |-> "Err", error |-> message]

EmptyExpression == "The expression is empty"

UnsupportedPhrasing ==
    "Unsupported phrasing. Use flag --list-patterns to list all supported shapes."

\* lines 430-434: whitespace collapsed, lower case, en and em dash to `-`
Normalized(trimmed) ==
    LET collapsed == join(split_whitespace(trimmed), <<" ">>)
        lower == to_lowercase(collapsed)
    IN  [i \in 1..Len(lower) |-> IF lower[i] \in {"en-dash", "em-dash"} THEN "-"
                                 ELSE lower[i]]

Init ==
    /\ expression \in Expressions
    /\ pc = "start"
    /\ normalized = <<>>
    /\ consulted = <<>>
    /\ result = [kind |-> "None"]

\* Begin testing the expression itself, not its trimmed form, for emptiness
BeginUntrimmed ==
    /\ pc = "start"
    /\ IF expression = <<>>
       THEN result' = Err(EmptyExpression) /\ pc' = "done"
       ELSE result' = result /\ pc' = "raw"
    /\ UNCHANGED <<expression, normalized, consulted>>

\* lines 421-424
Begin ==
    /\ pc = "start"
    /\ IF trim(expression) = <<>>
       THEN result' = Err(EmptyExpression) /\ pc' = "done"
       ELSE result' = result /\ pc' = "raw"
    /\ UNCHANGED <<expression, normalized, consulted>>

\* Consult without the early return: the cascade goes on after a match
ConsultWithoutReturn(label, found, next) ==
    /\ pc = label
    /\ consulted' = Append(consulted, label)
    /\ result' = (IF found.some THEN Ok(found.val) ELSE result)
    /\ pc' = next
    /\ UNCHANGED <<expression, normalized>>

\* `if let Some(spec) = <recognizer> { return Ok(spec); }`
Consult(label, found, next) ==
    /\ pc = label
    /\ consulted' = Append(consulted, label)
    /\ IF found.some
       THEN result' = Ok(found.val) /\ pc' = "done"
       ELSE result' = result /\ pc' = next
    /\ UNCHANGED <<expression, normalized>>

TryRaw == Consult("raw", try_parse_raw(trim(expression)), "normalize")

Normalize ==
    /\ pc = "normalize"
    /\ normalized' = Normalized(trim(expression))
    /\ pc' = "every_minutes"
    /\ UNCHANGED <<expression, consulted, result>>

TryEveryMinutes ==
    Consult("every_minutes", try_parse_every_minutes(normalized), "hourly")

TryHourly == Consult("hourly", try_parse_hourly(normalized), "every_hours")

TryEveryHours == Consult("every_hours", try_parse_every_hours(normalized), "daily")

TryDaily == Consult("daily", try_parse_daily(normalized), "weekdayish")

TryWeekdayish ==
    Consult("weekdayish", try_parse_weekdayish(normalized), "specific_days")

TrySpecificDays ==
    Consult("specific_days", try_parse_specific_days(normalized), "monthly")

TryMonthly == Consult("monthly", try_parse_monthly(normalized), "on_days")

TryOnDays == Consult("on_days", try_parse_on_days(normalized), "bail")

\* line 461
Bail ==
    /\ pc = "bail"
    /\ result' = Err(UnsupportedPhrasing)
    /\ pc' = "done"
    /\ UNCHANGED <<expression, normalized, consulted>>

Next ==
    \/ Begin
    \/ TryRaw
    \/ Normalize
    \/ TryEveryMinutes
    \/ TryHourly
    \/ TryEveryHours
    \/ TryDaily
    \/ TryWeekdayish
    \/ TrySpecificDays
    \/ TryMonthly
    \/ TryOnDays
    \/ Bail

Spec == Init /\ [][Next]_vars

(***************************************************************************)
(* What the claims are stated with.                                        *)
(***************************************************************************)
Done == pc = "done"

Returned == Done /\ result.kind = "Ok"

\* the nine recognizers in the order of the priority table
RecognizerOrder ==
    <<"raw", "every_minutes", "hourly", "every_hours", "daily", "weekdayish",
      "specific_days", "monthly", "on_days">>

\* what recognizer k gives for the expression: raw on the trimmed original,
\* the others on the normalized text
Recognized(k) ==
    CASE k = 1 -> try_parse_raw(trim(expression))
      [] k = 2 -> try_parse_every_minutes(Normalized(trim(expression)))
      [] k = 3 -> try_parse_hourly(Normalized(trim(expression)))
      [] k = 4 -> try_parse_every_hours(Normalized(trim(expression)))
      [] k = 5 -> try_parse_daily(Normalized(trim(expression)))
      [] k = 6 -> try_parse_weekdayish(Normalized(trim(expression)))
      [] k = 7 -> try_parse_specific_days(Normalized(trim(expression)))
      [] k = 8 -> try_parse_monthly(Normalized(trim(expression)))
      [] k = 9 -> try_parse_on_days(Normalized(trim(expression)))

IsBlank(s) == \A i \in 1..Len(s) : s[i] \in {" ", "\t"}

\* C1: the recognizers are consulted in the order of the table and each one
\* consulted before the last has declined; a returned record is the one of the
\* last recognizer consulted, which is therefore the lowest-numbered one that
\* matches, and nothing is consulted after it; the unsupported-phrasing error
\* comes only after all nine have been consulted and have declined.
C1_FirstMatchWins ==
    /\ Len(consulted) <= 9
    /\ consulted = SubSeq(RecognizerOrder, 1, Len(consulted))
    /\ \A j \in 1..Len(consulted) :
           (j < Len(consulted) \/ ~Returned) => ~Recognized(j).some
    /\ Returned =>
           /\ Len(consulted) >= 1
           /\ Recognized(Len(consulted)) = Some(result.spec)
    /\ (Done /\ result = Err(UnsupportedPhrasing)) => Len(consulted) = 9

\* C1 witness: the raw-cron recognizer has returned a record for an expression
\* the daily recognizer would match as well, and nothing else was consulted
C1_Witness ==
    /\ Returned
    /\ consulted = <<"raw">>
    /\ Recognized(5).some

\* the characters a raw cron token is made of
RawChars == Range(DigitChars) \cup Range(UpperChars) \cup Range(LowerChars)
                \cup {"?", "/", ",", "*", "-"}

\* the maximal runs of non-whitespace characters of s, in order
RECURSIVE Tokens(_, _)
Tokens(s, current) ==
    IF s = <<>> THEN (IF current = <<>> THEN <<>> ELSE <<current>>)
    ELSE IF Head(s) \in {" ", "\t"}
         THEN (IF current = <<>> THEN <<>> ELSE <<current>>) \o Tokens(Tail(s), <<>>)
         ELSE Tokens(Tail(s), Append(current, Head(s)))

\* five tokens of raw cron characters
IsRawCron(s) ==
    /\ Len(Tokens(s, <<>>)) = 5
    /\ \A i \in 1..5 : Range(Tokens(s, <<>>)[i]) \subseteq RawChars

\* s without its leading and trailing whitespace and with every other run of
\* whitespace replaced by one space
RECURSIVE Collapsed(_, _)
Collapsed(s, started) ==
    IF s = <<>> THEN <<>>
    ELSE IF Head(s) \in {" ", "\t"}
         THEN IF started /\ ~IsBlank(Tail(s)) /\ Tail(s)[1] \notin {" ", "\t"}
              THEN <<" ">> \o Collapsed(Tail(s), TRUE)
              ELSE Collapsed(Tail(s), started)
         ELSE <<Head(s)>> \o Collapsed(Tail(s), TRUE)

\* C2: an expression of exactly five tokens of raw cron characters parses to
\* the record whose five fields are the tokens in order, unchanged, with the
\* explanation "Raw cron expression"; its cron line is the expression with its
\* whitespace runs collapsed.
C2_RawPassthrough ==
    (Done /\ IsRawCron(expression)) =>
        /\ result.kind = "Ok"
        /\ <<result.spec.minute, result.spec.hour, result.spec.day_of_month,
             result.spec.month, result.spec.day_of_week>> = Tokens(expression, <<>>)
        /\ result.spec.explanation = <<"R","a","w"," ","c","r","o","n"," ","e","x","p","r","e","s","s","i","o","n">>
        /\ as_string(result.spec) = Collapsed(expression, FALSE)

\* C2 witness: a raw cron expression with capitals and whitespace runs has been parsed
C2_Witness ==
    /\ Returned
    /\ IsRawCron(expression)
    /\ result.spec.month = <<"J","A","N">>
    /\ Len(expression) > Len(as_string(result.spec))

\* C3: a finished parse has exactly one of three outcomes: the empty-expression
\* error exactly for blank input, before any recognizer is consulted; the
\* unsupported-phrasing error exactly for non-blank input no recognizer
\* matches; a record otherwise.  The two errors differ and a result is a record
\* or an error, never both.
C3_ThreeOutcomes ==
    /\ EmptyExpression # UnsupportedPhrasing
    /\ Done =>
        /\ result.kind \in {"Ok", "Err"}
        /\ result.kind = "Ok" => DOMAIN result = {"kind", "spec"}
        /\ result.kind = "Err" =>
               /\ DOMAIN result = {"kind", "error"}
               /\ result.error \in {EmptyExpression, UnsupportedPhrasing}
        /\ result = Err(EmptyExpression) <=> IsBlank(expression)
        /\ result = Err(EmptyExpression) => consulted = <<>>
        /\ result = Err(UnsupportedPhrasing) <=>
               (~IsBlank(expression) /\ \A k \in 1..9 : ~Recognized(k).some)
        /\ result.kind = "Ok" <=>
               (~IsBlank(expression) /\ \E k \in 1..9 : Recognized(k).some)

\* C3 witness: a whitespace-only expression has been refused as empty
C3_Witness ==
    /\ Done
    /\ expression # <<>>
    /\ result = Err(EmptyExpression)

\* whether a field is a number or a comma list of numbers
IsNumberList(f) ==
    /\ f # <<>>
    /\ Range(f) \subseteq Range(DigitChars) \cup {","}
    /\ \A i \in 1..Len(split(f, ",")) : split(f, ",")[i] # <<>>

\* whether every number of a number list lies in lo..hi
NumbersWithin(f, lo, hi) ==
    \A i \in 1..Len(split(f, ",")) :
        /\ Len(StripZeros(split(f, ",")[i])) <= 9
        /\ SmallValue(StripZeros(split(f, ",")[i])) \in lo..hi

FieldInDomain(f, lo, hi) == f # <<>> /\ (IsNumberList(f) => NumbersWithin(f, lo, hi))

\* C4: every returned record has five non-empty fields, and each field that is
\* a number or a comma list of numbers lies in its domain: minute 0-59, hour
\* 0-23, day of month 1-31, day of week 0-6.
C4_FieldsInDomain ==
    Returned =>
        /\ FieldInDomain(result.spec.minute, 0, 59)
        /\ FieldInDomain(result.spec.hour, 0, 23)
        /\ FieldInDomain(result.spec.day_of_month, 1, 31)
        /\ FieldInDomain(result.spec.day_of_week, 0, 6)
        /\ result.spec.month # <<>>

\* C5 as stated: the month field of every returned record is `*`.
C5_MonthAlwaysStar == Returned => result.spec.month = <<"*">>

\* C5: the month field of a returned record is `*` unless the raw-cron
\* recognizer produced the record, and then it is the expression's fourth token.
C5_MonthStarUnlessRaw ==
    Returned =>
        result.spec.month =
            IF consulted = <<"raw">> THEN Tokens(expression, <<>>)[4] ELSE <<"*">>

\* C5 witness: the monthly recognizer has returned a record
C5_Witness ==
    /\ Returned
    /\ Len(consulted) = 8
    /\ result.spec.day_of_month = <<"1",",","1","5">>

\* the three ways a daily phrase with `at` starts
DailyHeads == {<<"d","a","i","l","y"," ","a","t"," ">>, <<"d","a","y"," ","a","t"," ">>, <<"e","v","e","r","y"," ","d","a","y"," ","a","t"," ">>}

\* C9: an expression `daily at T`, `day at T` or `every day at T` whose time
\* fragment T the Clock-Time Parser maps to (h, m) parses to minute m, hour h,
\* `*` for the three other fields and the explanation "Daily at HH:MM".
C9_DailyPhrases ==
    \A head \in DailyHeads :
        (/\ Done
         /\ starts_with(expression, head)
         /\ parse_time_fragment(From(expression, Len(head) + 1)).some) =>
            result = Ok(CronSpec_new(
                to_string(parse_time_fragment(From(expression, Len(head) + 1)).val[2]),
                to_string(parse_time_fragment(From(expression, Len(head) + 1)).val[1]),
                <<"*">>, <<"*">>, <<"*">>,
                <<"D","a","i","l","y"," ","a","t"," ">> \o format_clock(
                    parse_time_fragment(From(expression, Len(head) + 1)).val[1],
                    parse_time_fragment(From(expression, Len(head) + 1)).val[2])))

MinuteUnits == {<<"m","i","n">>, <<"m","i","n","s">>, <<"m","i","n","u","t","e">>, <<"m","i","n","u","t","e","s">>}

IsDigits(s) == s # <<>> /\ Range(s) \subseteq Range(DigitChars)

\* whether s is `every [N] unit`, N being the digit string n (<<>> when absent)
IsEveryMinutes(s, n) ==
    \E u \in MinuteUnits :
        s = <<"e","v","e","r","y"," ">> \o (IF n = <<>> THEN <<>> ELSE n \o <<" ">>) \o u

\* the record C10 expects for the count written as the digit string n
EveryMinutesRecord(n) ==
    LET Clamped(v) ==
            CronSpec_new(IF v = <<"1">> THEN <<"*">> ELSE <<"*","/">> \o v, <<"*">>, <<"*">>, <<"*">>, <<"*">>,
                         <<"E","v","e","r","y"," ">> \o v \o <<" ","m","i","n","u","t","e","(","s",")">>)
        Value(v) == Clamped(IF v = <<"0">> THEN <<"1">> ELSE v)
    IN  Value(IF n = <<>> THEN <<"1">> ELSE StripZeros(n))

\* C10: an expression `every [N] min|mins|minute|minutes`, N a decimal integer
\* of any length, parses to `*` for hour, day of month, month and day of week,
\* to the minute `*` when N is absent, 0 or 1 and `*/N` when N >= 2, and to
\* the explanation "Every N minute(s)" with the same N (1 for an absent or zero N).
C10_EveryMinutes ==
    \A i \in 6..Len(expression) + 1 : \A j \in 5..Len(expression) :
        LET n == SubSeq(expression, i, j)
        IN  (/\ Done
             /\ n = <<>> \/ IsDigits(n)
             /\ IsEveryMinutes(expression, n)) =>
                result = Ok(EveryMinutesRecord(n))

HourlyHeads == {<<"h","o","u","r","l","y">>, <<"e","v","e","r","y"," ","h","o","u","r">>}

HourUnits == {<<" ","h","o","u","r">>, <<" ","h","o","u","r","s">>}

\* the lengths of the three suffixes: none, ` at :M` and ` at :MM`
SuffixLengths == {0, 6, 7}

\* the MM of the suffix ` at :MM` (<<>> for no suffix at all); None for any
\* other text
WrittenSuffix(tail) ==
    IF tail = <<>> THEN Some(<<>>)
    ELSE IF starts_with(tail, <<" ","a","t"," ",":">>) /\ Len(tail) \in {6, 7} /\ IsDigits(From(tail, 6))
    THEN Some(From(tail, 6))
    ELSE None

\* whether head is `every N` followed by the unit, N one or more digits
IsEveryHours(head, unit) ==
    /\ starts_with(head, <<"e","v","e","r","y"," ">>)
    /\ ends_with(head, unit)
    /\ IsDigits(SubSeq(head, 7, Len(head) - Len(unit)))

\* the N of such a head
CountOf(head, unit) == SubSeq(head, 7, Len(head) - Len(unit))

\* a successful result with the given minute, an hour that Hour accepts and
\* `*` in the three other fields
HourlyFields(res, minute, Hour(_)) ==
    /\ res.kind = "Ok"
    /\ res.spec.minute = minute
    /\ Hour(res.spec.hour)
    /\ res.spec.day_of_month = <<"*">>
    /\ res.spec.month = <<"*">>
    /\ res.spec.day_of_week = <<"*">>

\* the hourly and every-N-hours claim for the expression expr and its result
\* res: Minute(mm) is the minute field for the written digits mm (<<>> when
\* the suffix is absent), Hour(n, h) whether h is the hour field for the count n
HourlyClaim(expr, res, Minute(_), Hour(_, _)) ==
    \A t \in SuffixLengths :
        LET Fields(head, mm) ==
                /\ head \in HourlyHeads =>
                        HourlyFields(res, Minute(mm), LAMBDA h : h = <<"*">>)
                /\ \A unit \in HourUnits :
                        IsEveryHours(head, unit) =>
                            HourlyFields(res, Minute(mm),
                                         LAMBDA h : Hour(CountOf(head, unit), h))
            Suffixed(head, suffix) == suffix.some => Fields(head, suffix.val)
        IN  t <= Len(expr) =>
                Suffixed(SubSeq(expr, 1, Len(expr) - t),
                         WrittenSuffix(From(expr, Len(expr) - t + 1)))

\* the number written by the digits mm, 0 without them
MinuteWritten(mm) == IF mm = <<>> THEN <<"0">> ELSE StripZeros(mm)

\* the same number, 59 when it is greater than 59
MinuteUpTo59(mm) ==
    IF mm # <<>> /\ SmallValue(StripZeros(mm)) > 59 THEN <<"5","9">> ELSE MinuteWritten(mm)

\* `*` for the count 1 and `*/N` for a count N >= 2; nothing is said of 0
HourStep(n, h) ==
    CASE StripZeros(n) = <<"0">> -> TRUE
      [] StripZeros(n) = <<"1">> -> h = <<"*">>
      [] OTHER -> h = <<"*","/">> \o StripZeros(n)

\* `*/N` for a count N of 2..4294967295, `*` for any other count
HourStepU32(n, h) ==
    IF StripZeros(n) \in {<<"0">>, <<"1">>} \/ ExceedsU32(StripZeros(n)) THEN h = <<"*">>
    ELSE h = <<"*","/">> \o StripZeros(n)

\* C11 as stated: for `hourly`, `every hour` and `every N hour(s)` with an
\* optional suffix ` at :MM` (MM one or two digits) the minute field is the
\* number MM that was written, 0 without the suffix; the hour field is `*` for
\* `hourly`, `every hour` and N = 1 and `*/N` for N >= 2; day of month, month
\* and day of week are `*`.
C11_MinuteAsWritten == Done => HourlyClaim(expression, result, MinuteWritten, HourStep)

\* C11: the same, with the minute field being MM or 59, whichever is smaller
\* (0 without the suffix), and the hour field `*/N` for N from 2 to 4294967295
\* and `*` for every other N.
C11_MinuteUpTo59 == Done => HourlyClaim(expression, result, MinuteUpTo59, HourStepU32)

\* `every 2 hours at :75` has been parsed: the minute is 59, the hour `*/2`
C11_Witness ==
    /\ Done
    /\ expression = <<"e","v","e","r","y"," ","2"," ","h","o","u","r","s"," ","a","t"," ",":","7","5">>
    /\ result.kind = "Ok"
    /\ result.spec.minute = <<"5","9">>
    /\ result.spec.hour = <<"*","/","2">>

(***************************************************************************)
(* The Clock-Time Parser on its own: parse_time_fragment applied to a      *)
(* fragment.                                                               *)
(***************************************************************************)
\* the longest fragment made of any characters of TimeAlphabet
MaxFragLen == 4

\* the hours 0..MaxHour and the minutes 0..MaxMinute are written out
MaxHour == 24

MaxMinute == 60

TimeAlphabet == {"1", "2", ":", "a", "p", "m", "+", " "}

\* every sequence of at most n elements of S
RECURSIVE SeqsUpTo(_, _)
SeqsUpTo(S, n) ==
    IF n = 0 THEN {<<>>}
    ELSE SeqsUpTo(S, n - 1) \cup {Append(q, c) : q \in SeqsUpTo(S, n - 1), c \in S}

HourStrings == {to_string(h) : h \in 0..MaxHour} \cup {Pad2(h) : h \in 0..MaxHour}

MinuteStrings ==
    {<<>>} \cup {<<":">> \o Pad2(m) : m \in 0..MaxMinute} \cup {<<":">> \o to_string(m) : m \in 0..9}

TimeFragments ==
    SeqsUpTo(TimeAlphabet, MaxFragLen)
        \cup Cat(Cat(HourStrings, MinuteStrings), {<<>>, <<"a","m">>, <<"p","m">>, <<" ","P","M">>})
        \cup {<<"n","o","o","n">>, <<"m","i","d","n","i","g","h","t">>, <<"N","O","O","N">>, <<" ","M","i","d","n","i","g","h","t","\t">>, <<"m","i","d"," ","n","i","g","h","t">>, <<"n","o","o","n","p","m">>,
              <<"n","o"," ","o","n">>, <<"9","9","9","9","9","9","9","9","9","9","9">>, <<"5",":","9","9","9","9","9","9","9","9","9","9","9">>, <<"4","2","9","4","9","6","7","2","9","6">>, <<"0","0","0","0","0","0","0","0","0","5">>,
              <<"5","\t","p","m">>, <<"+","5",":","+","3","0">>, <<"+","+","5">>, <<"5","+">>, <<"7",":","1","5",":","0","0">>, <<"5","p","m","a","m">>, <<"-","5">>, <<"5",":","-","1">>,
              <<"f","i","v","e">>, <<"1","2",":","0","0"," ","a"," ","m">>}

InitTime ==
    /\ expression \in TimeFragments
    /\ pc = "call"
    /\ normalized = <<>>
    /\ consulted = <<>>
    /\ result = [kind |-> "None"]

CallParseTimeFragment ==
    /\ pc = "call"
    /\ result' = parse_time_fragment(expression)
    /\ pc' = "done"
    /\ UNCHANGED <<expression, normalized, consulted>>

SpecTime == InitTime /\ [][CallParseTimeFragment]_vars

\* an unsigned integer: one or more digits
IsUnsigned(s) == IsDigits(s)

\* an unsigned integer that may be written with one leading `+`
IsUnsignedOrPlus(s) == IsDigits(s) \/ (s # <<>> /\ Head(s) = "+" /\ IsDigits(Tail(s)))

\* the digits of an integer written with or without a sign, without leading zeros
Magnitude(s) == StripZeros(SelectSeq(s, LAMBDA c : c \in Range(DigitChars)))

\* whether the integer written by s is greater than n
Above(s, n) == Len(Magnitude(s)) > 9 \/ SmallValue(Magnitude(s)) > n

\* the (hour, minute) C6 gives for H, M (<<>> when absent) and the meridian
ClockOf(H, M, meridian) ==
    LET Pair(h, m) ==
            Some(<<CASE meridian = "am" -> (IF h = 12 THEN 0 ELSE h)
                     [] meridian = "pm" -> (IF h = 12 THEN 12 ELSE h + 12)
                     [] OTHER -> h,
                   m>>)
    IN  Pair(SmallValue(Magnitude(H)), IF M = <<>> THEN 0 ELSE SmallValue(Magnitude(M)))

\* what C6 says of a fragment, Integer(_) telling what H and M must be
ClockTimeClaim(raw, Integer(_)) ==
    LET Split(body, meridian, colons) ==
            IF Cardinality(colons) > 1 THEN None
            ELSE IF colons = {} /\ ~Integer(body) THEN None
            ELSE IF colons # {} /\
                    (\/ ~Integer(SubSeq(body, 1, SetMin(colons) - 1))
                     \/ ~Integer(From(body, SetMin(colons) + 1))) THEN None
            ELSE IF Above(IF colons = {} THEN body
                          ELSE SubSeq(body, 1, SetMin(colons) - 1), 23) THEN None
            ELSE IF colons # {} /\ Above(From(body, SetMin(colons) + 1), 59) THEN None
            ELSE IF meridian # "none" /\
                    Above(IF colons = {} THEN body
                          ELSE SubSeq(body, 1, SetMin(colons) - 1), 12) THEN None
            ELSE ClockOf(IF colons = {} THEN body ELSE SubSeq(body, 1, SetMin(colons) - 1),
                         IF colons = {} THEN <<>> ELSE From(body, SetMin(colons) + 1),
                         meridian)
        Body(body, meridian) == Split(body, meridian, {i \in 1..Len(body) : body[i] = ":"})
        Fragment(f) ==
            IF ends_with(f, <<"a","m">>) THEN Body(SubSeq(f, 1, Len(f) - 2), "am")
            ELSE IF ends_with(f, <<"p","m">>) THEN Body(SubSeq(f, 1, Len(f) - 2), "pm")
            ELSE Body(f, "none")
        Lower(t) ==
            IF t = <<"m","i","d","n","i","g","h","t">> THEN Some(<<0, 0>>)
            ELSE IF t = <<"n","o","o","n">> THEN Some(<<12, 0>>)
            ELSE Fragment(SelectSeq(t, LAMBDA c : c # " "))
    IN  Lower(to_lowercase(trim(raw)))

\* C6 as stated: the Clock-Time Parser's result for a fragment is the one the
\* claim describes, H and M being unsigned integers (digits only).
C6_ClockTimeDigitsOnly == Done => result = ClockTimeClaim(expression, IsUnsigned)

\* C6: the Clock-Time Parser's result for a fragment is the one the claim
\* describes, H and M being unsigned integers that may carry one leading `+`;
\* every result has its hour in 0..23 and its minute in 0..59, and the
\* zero-padded HH:MM of a valid 24-hour pair parses back to that pair.
C6_ClockTime ==
    Done =>
        /\ result = ClockTimeClaim(expression, IsUnsignedOrPlus)
        /\ result.some => result.val[1] \in 0..23 /\ result.val[2] \in 0..59
        /\ (Len(expression) = 5 /\ expression[3] = ":") =>
               \A h \in 0..23 : \A m \in 0..59 :
                   expression = format_clock(h, m) => result = Some(<<h, m>>)

\* C6 witness: a fragment with hour 12, minutes and `am` has been parsed to hour 0
C6_Witness ==
    /\ Done
    /\ ends_with(to_lowercase(expression), <<"a","m">>)
    /\ starts_with(expression, <<"1","2",":">>)
    /\ result = Some(<<0, 30>>)

(***************************************************************************)
(* The two list parsers on their own: parse_day_list and parse_dom_list    *)
(* applied to a fragment.                                                  *)
(***************************************************************************)
\* the most words a list fragment is made of
MaxListLen == 3

ListSeparators == {<<" ">>, <<",">>, <<" ","&"," ">>, <<" ","a","n","d"," ">>}

\* the fragments of one to MaxListLen of the words, one separator throughout
ListsOf(words) ==
    {join(q, sep) : q \in SeqsUpTo(words, MaxListLen) \ {<<>>}, sep \in ListSeparators}

DayWords ==
    {<<"m","o","n">>, <<"m","o","n","d","a","y","s">>, <<"T","u","e","s">>, <<"t","h","u","r","s">>, <<"s","u","n">>, <<"f","u","n","d","a","y">>, <<"e","v","e","r","y">>, <<"a","n","d">>}

DayFragments ==
    ListsOf(DayWords)
        \cup {<<>>, <<"m","o","n"," ","w","e","d","n","e","s","d","a","y">>, <<"M","o","n","d","a","y","s",","," ","W","e","d","n","e","s","d","a","y","s">>, <<"w","e","e","k","l","y"," ","o","n"," ","f","r","i">>,
              <<"s","a","t",",","f","r","i","&","t","h","u"," ","a","n","d"," ","w","e","d">>, <<"m","o","n"," ","a","n","d"," ","a","n","d"," ","t","u","e">>, <<"m","o","n"," ","A","N","D"," ","t","u","e">>, <<"m","o","n","\t","a","n","d","\t","t","u","e">>,
              <<"t","u","e","s","s">>, <<"t","h","u","r","s","s">>, <<"s">>, <<"o","n","s">>, <<"o","n"," ","t","h","e"," ","w","e","e","k","s">>, <<"e","a","c","h"," ","s","a","t","u","r","d","a","y","s">>,
              <<"m","o","n","a","n","d","t","u","e">>, <<"S","a","t"," ","S","U","N">>, <<"w","e","d","s"," ","w","e","d","s">>, <<"f","r","i",","," ","a","n","d"," ","s","a","t">>, <<"w","e","d","n","e","s","d","a","y">>,
              <<"W","e","d","n","e","s","d","a","y","s"," ","&"," ","T","U","E","S","D","A","Y">>}

InitDays ==
    /\ expression \in DayFragments
    /\ pc = "call"
    /\ normalized = <<>>
    /\ consulted = <<>>
    /\ result = [kind |-> "None"]

CallParseDayList ==
    /\ pc = "call"
    /\ result' = parse_day_list(expression)
    /\ pc' = "done"
    /\ UNCHANGED <<expression, normalized, consulted>>

SpecDays == InitDays /\ [][CallParseDayList]_vars

DomWords ==
    {<<"1">>, <<"1","s","t">>, <<"1","5","t","h">>, <<"3","1","s","t">>, <<"3","2">>, <<"2","n","d">>, <<"a","n","d">>, <<"x","9","y">>}

DomFragments ==
    ListsOf(DomWords)
        \cup {<<>>, <<"1","5","t","h"," ","a","n","d"," ","1","s","t",","," ","1">>, <<"t","h","e"," ","f","i","r","s","t">>, <<"1"," ","3","r","d"," ","2","2","n","d">>, <<"t","h">>, <<"1","t","h","2">>,
              <<"0","0","7">>, <<"1","\t","a","n","d","\t","2">>, <<"1","0",",","2","0">>, <<"1",",","a","n","d",",","2">>, <<"3"," ","r","d">>, <<"4","2","9","4","9","6","7","2","9","7">>,
              <<"f","i","r","s","t"," ","2","n","d"," ","t","h","i","r","d">>, <<"1","s"," ","t","2">>, <<"+","5">>, <<"1"," ","a","n","d"," ","a","n","d"," ","2">>, <<"0">>, <<"0"," ","5">>,
              <<"9","9","9","9","9","9","9","9","9","9","9">>, <<"9","9","9","9","9","9","9","9","9","9","9"," ","3">>, <<"3","1",",","3","2">>, <<"1"," ","a","s","t","n","d"," ","2">>, <<"s","s","t","t"," ","3">>,
              <<"1"," ","a","n","d","2">>, <<"a","n","d"," ","1"," ","a","n","d">>, <<"2","1","s","t"," ","a","n","d"," ","2","n","d"," ","a","n","d"," ","3","r","d">>}

InitDom ==
    /\ expression \in DomFragments
    /\ pc = "call"
    /\ normalized = <<>>
    /\ consulted = <<>>
    /\ result = [kind |-> "None"]

CallParseDomList ==
    /\ pc = "call"
    /\ result' = parse_dom_list(expression)
    /\ pc' = "done"
    /\ UNCHANGED <<expression, normalized, consulted>>

SpecDom == InitDom /\ [][CallParseDomList]_vars

\* the numbers of a finite set in ascending order
RECURSIVE Ascending(_)
Ascending(S) == IF S = {} THEN <<>> ELSE <<SetMin(S)>> \o Ascending(S \ {SetMin(S)})

\* the names of the weekday with code d, 0 = Sunday .. 6 = Saturday
WeekdayNames(d) ==
    CASE d = 0 -> {<<"s","u","n">>, <<"s","u","n","d","a","y">>}
      [] d = 1 -> {<<"m","o","n">>, <<"m","o","n","d","a","y">>}
      [] d = 2 -> {<<"t","u","e">>, <<"t","u","e","s">>, <<"t","u","e","s","d","a","y">>}
      [] d = 3 -> {<<"w","e","d">>, <<"w","e","d","s">>, <<"w","e","d","n","e","s","d","a","y">>}
      [] d = 4 -> {<<"t","h","u">>, <<"t","h","u","r">>, <<"t","h","u","r","s">>, <<"t","h","u","r","s","d","a","y">>}
      [] d = 5 -> {<<"f","r","i">>, <<"f","r","i","d","a","y">>}
      [] d = 6 -> {<<"s","a","t">>, <<"s","a","t","u","r","d","a","y">>}

\* a word names weekday d in any capitalisation, with or without one trailing `s`
NamesDay(word, d) ==
    \/ to_lowercase(word) \in WeekdayNames(d)
    \/ \E name \in WeekdayNames(d) : to_lowercase(word) = name \o <<"s">>

StopWords == {<<"e","v","e","r","y">>, <<"e","a","c","h">>, <<"o","n">>, <<"w","e","e","k">>, <<"w","e","e","k","s">>, <<"w","e","e","k","l","y">>, <<"t","h","e">>}

\* a fragment with its `,` and `&` replaced by spaces
SeparatorsAsSpaces(s) == [i \in 1..Len(s) |-> IF s[i] \in {",", "&"} THEN " " ELSE s[i]]

\* the words of a fragment whose `,` and `&` are separators
WordsOf(s) == Tokens(SeparatorsAsSpaces(s), <<>>)

\* what C7 says of a fragment whose words, separators apart, are `words`: the
\* stop-words are dropped, every other word must name a weekday and at least
\* one must; the result is the ascending list of the codes named
DayListClaim(words) ==
    LET Named(named) ==
            IF named = {} THEN None
            ELSE Some([cron_value |->
                           join([i \in 1..Cardinality(named) |->
                                    <<DigitChars[Ascending(named)[i] + 1]>>], <<",">>),
                       days |-> Ascending(named)])
        Kept(kept) ==
            IF \E i \in kept : \A d \in 0..6 : ~NamesDay(words[i], d) THEN None
            ELSE Named({d \in 0..6 : \E i \in kept : NamesDay(words[i], d)})
    IN  Kept({i \in 1..Len(words) : to_lowercase(words[i]) \notin StopWords})

Decimal(n) ==
    IF n < 10 THEN <<DigitChars[n + 1]>>
    ELSE <<DigitChars[(n \div 10) + 1], DigitChars[(n % 10) + 1]>>

\* the number the digit characters of a word give, read as a decimal number;
\* 0 for a word without digits and for a number of more than two digits
WordNumber(word) ==
    IF Range(word) \cap Range(DigitChars) = {} \/ Len(Magnitude(word)) > 2 THEN 0
    ELSE SmallValue(Magnitude(word))

\* what C8 says of a fragment whose words are `words`: the numbers in 1..31
\* its words give, ascending, joined with `,` and with `, `
DomListClaim(words) ==
    LET Given(given) ==
            IF given = <<>> THEN None
            ELSE Some([cron_value |-> join([i \in 1..Len(given) |-> Decimal(given[i])], <<",">>),
                       human_value |->
                           join([i \in 1..Len(given) |-> Decimal(given[i])], <<","," ">>)])
    IN  Given(Ascending({WordNumber(words[i]) : i \in 1..Len(words)} \cap 1..31))

\* C8: the Day-of-Month-List Parser's values are exactly the distinct numbers
\* in 1..31 given by the digit characters of each word of the fragment (words
\* being separated by whitespace and `,`), ascending, joined with `,` for the
\* cron value and `, ` for the human value; words without digits and numbers
\* outside 1..31 are skipped; a non-match exactly when no word gives a number
\* in 1..31.
C8_DomList ==
    Done => result =
        DomListClaim(Tokens([i \in 1..Len(expression) |->
                                IF expression[i] = "," THEN " " ELSE expression[i]], <<>>))

\* C8 witness: `15th and 1st, 1` has been parsed to 1,15
C8_Witness ==
    /\ Done
    /\ expression = <<"1","5","t","h"," ","a","n","d"," ","1","s","t",","," ","1">>
    /\ result.some
    /\ result.val.cron_value = <<"1",",","1","5">>
    /\ result.val.human_value = <<"1",","," ","1","5">>

\* parse_dom_list as the variant of C13 does it: `,` replaced by a space, the
\* fragment split on whitespace, the digit characters of each token kept
DomListVariant(raw) ==
    LET Sorted(values) ==
            Some([cron_value |-> JoinNumbers(values, <<",">>),
                  human_value |-> JoinNumbers(values, <<","," ">>)])
        Values(values) == IF values = <<>> THEN None ELSE Sorted(sort(values))
    IN  Values(DomListLoop(split_whitespace(replace(raw, <<",">>, <<" ">>)), <<>>))

\* C13: removing `th`, `rd`, `nd`, `st` and the word ` and ` from the fragment
\* never changes what parse_dom_list returns: it returns what the variant
\* that only replaces `,` by a space returns, the same non-match or the same
\* cron value and human value.
C13_BlindRemovalHarmless == Done => result = DomListVariant(expression)

\* C13 witness: `21st and 2nd and 3rd`, from which the removal takes letters and
\* two words, has been parsed to 2,3,21
C13_Witness ==
    /\ Done
    /\ expression = <<"2","1","s","t"," ","a","n","d"," ","2","n","d"," ","a","n","d"," ","3","r","d">>
    /\ DomNormalize(expression) = <<"2","1"," ","2"," ","3">>
    /\ result.some
    /\ result.val.cron_value = <<"2",",","3",",","2","1">>

(***************************************************************************)
(* Recognizers 7, 8 and 9 on their own: try_parse_specific_days,           *)
(* try_parse_monthly and try_parse_on_days applied to one normalized       *)
(* input, in any order.                                                    *)
(***************************************************************************)
\* the longest input made of any words of LateWords
MaxWords == 4

LateWords == {<<"o","n">>, <<"m","o","n","t","h","l","y">>, <<"m","o","n">>, <<"1","s","t">>, <<"a","t">>, <<"5">>}

\* normalized inputs: lower case, single spaces, no padding
LateInputs ==
    {join(q, <<" ">>) : q \in SeqsUpTo(LateWords, MaxWords)}
        \cup {<<"m","o","n","t","h","l","y"," ","o","n"," ","1","s","t"," ","a","t"," ","5">>, <<"m","o","n","t","h","l","y"," ","o","n"," ","m","o","n"," ","a","t"," ","5">>, <<"o","n"," ","m","o","n","t","h","l","y"," ","o","n"," ","1"," ","a","t"," ","5">>,
              <<"o","n"," ","1","s","t"," ","a","n","d"," ","m","o","n"," ","a","t"," ","5">>, <<"m","o","n",","," ","1"," ","a","t"," ","5">>, <<"o","n"," ","s","u","n","d","a","y"," ","1"," ","a","t"," ","5","p","m">>,
              <<"m","o","n","t","h","l","y","o","n"," ","1"," ","a","t"," ","5">>, <<"m","o","n","t","h","l","y"," ","o","n"," ","o","n"," ","1"," ","a","t"," ","5">>, <<"o","n"," ","o","n"," ","m","o","n"," ","a","t"," ","n","o","o","n">>,
              <<"o","n"," ","t","h","e"," ","1","s","t"," ","a","t"," ","n","o","o","n">>, <<"o","n"," ","m","o","n","1"," ","a","t"," ","5">>, <<"o","n"," ","m","o","n","d","a","y",",","1"," ","a","t"," ","5">>,
              <<"m","o","n","t","h","l","y"," ","m","o","n"," ","a","t"," ","5">>, <<"o","n"," ","w","e","e","k","l","y"," ","o","n"," ","f","r","i"," ","a","t"," ","1","7",":","4","5">>, <<"o","n"," ","1"," ","a","t"," ","5"," ","a","t"," ","6">>,
              <<"m","o","n","d","a","y","s"," ","&"," ","o","n"," ","a","t"," ","5">>, <<"o","n"," ","a","t"," ","1"," ","a","t"," ","5">>, <<"m","o","n","t","h","l","y","m","o","n","t","h","l","y"," ","a","t"," ","5">>,
              <<"o","n"," ","1","5","t","h"," ","a","n","d"," ","1","s","t",","," ","1"," ","a","t"," ","5",":","3","0"," ","p","m">>, <<"o","n"," ","t","u","e"," ","a","n","d"," ","t","h","u"," ","a","t"," ","7">>}

LateRecognizers == {"specific_days", "monthly", "on_days"}

InitLate ==
    /\ expression \in LateInputs
    /\ normalized = expression
    /\ pc = "call"
    /\ consulted = <<>>
    /\ result = [kind |-> "Calls", returned |-> {}]

\* the recognizer `label` is applied to the input and what it returns is kept
Call(label, found) ==
    /\ pc = "call"
    /\ \A c \in result.returned : c[1] # label
    /\ result' = [kind |-> "Calls", returned |-> result.returned \cup {<<label, found>>}]
    /\ pc' = IF Cardinality(result.returned) = 2 THEN "done" ELSE "call"
    /\ UNCHANGED <<expression, normalized, consulted>>

CallSpecificDays == Call("specific_days", try_parse_specific_days(normalized))

CallMonthly == Call("monthly", try_parse_monthly(normalized))

CallOnDays == Call("on_days", try_parse_on_days(normalized))

NextLate == CallSpecificDays \/ CallMonthly \/ CallOnDays

SpecLate == InitLate /\ [][NextLate]_vars

\* the orders in which the three recognizers can be consulted
LateOrders ==
    {q \in [1..3 -> LateRecognizers] : \A i, j \in 1..3 : q[i] = q[j] => i = j}

\* what the recognizer `label` returned
ReturnedBy(label) == (CHOOSE c \in result.returned : c[1] = label)[2]

\* the result of consulting the three recognizers in the order `order`: the
\* record of the first one that returned one
FirstIn(order) ==
    IF ReturnedBy(order[1]).some THEN ReturnedBy(order[1])
    ELSE IF ReturnedBy(order[2]).some THEN ReturnedBy(order[2])
    ELSE ReturnedBy(order[3])

\* C12: at most one of try_parse_specific_days, try_parse_monthly and
\* try_parse_on_days returns a record for a normalized input, so consulting
\* the three in any order gives the same result.
C12_MutuallyExclusive ==
    /\ Cardinality({c \in result.returned : c[2].some}) <= 1
    /\ Done => \A first, second \in LateOrders : FirstIn(first) = FirstIn(second)

\* C12 witness: the three recognizers have been applied to `on 1st at 5`, and
\* only try_parse_on_days returned a record
C12_Witness ==
    /\ Done
    /\ normalized = <<"o","n"," ","1","s","t"," ","a","t"," ","5">>
    /\ ReturnedBy("on_days").some
    /\ ~ReturnedBy("specific_days").some
    /\ ~ReturnedBy("monthly").some

====
